---- MODULE Spec2Model ----
(***************************************************************************)
(* A model of BOJ_MM (project.py, project_classes.py): the instrument-name *)
(* classifier get_short_name, the two source normalizers (clean_up_data,   *)
(* clean_up_notes for the daily pages, get_excel_data for the monthly      *)
(* spreadsheets), the record builder (add_operation, add_operations) and   *)
(* the top-level workflow main with its JSON backup.                       *)
(*                                                                         *)
(* Text is modelled at the level of phrases.  A description (long_name) is *)
(* a sequence of tokens that stand for the pieces of text the program's    *)
(* regular expressions look for; consecutive tokens are separated by one   *)
(* space, so the description is the tokens joined by " ".                  *)
(* Yields are integers in thousandths of a percent (0.250% is 250).        *)
(* Dates are day numbers.                                                  *)
(***************************************************************************)
EXTENDS Integers, Sequences, FiniteSets, TLC

VARIABLES
    long_name,      \* get_short_name: the raw description it is called with
    short_name,     \* get_short_name: its outcome (a name or an exception)
    source,         \* which source is being ingested: "excel" or "web"
    worksheet,      \* get_excel_data: the worksheet pd.read_excel returns
    page,           \* get_web_data: the tables of the day's two pages
    df_data,        \* the frame of normalized rows (df_full, df_data)
    df_notes,       \* the frame of fixed-rate annotations (df_notes)
    new_op,         \* add_operation: the Operation being filled
    ops,            \* the list of finished Operations (new_ops, ops)
    cursor,         \* loop positions: [date, row, note]
    pc,             \* the place in the code
    raised,         \* the exception that ended the run, if any
    today,          \* main: date.today()
    file,           \* the backup file JSON_FILE
    reply,          \* main: the answer to the backup question
    operations,     \* main: the list of Operations
    start_date,     \* main: the first date handed to the charts
    end_date_web,   \* main: the last date handed to the charts
    month,          \* get_historical_excel_data: the month of the loop
    curdate,        \* get_web_data: the date of the loop
    run,            \* how many times the program has been started
    query,          \* the call of a record or chart function being made
    result          \* what that call, or the charts of main, returned

nameVars == <<long_name, short_name>>

ingestVars == <<source, worksheet, page, df_data, df_notes, new_op, ops, cursor, pc, raised>>

mainVars ==
    <<today, file, reply, operations, start_date, end_date_web, month, curdate, run>>

queryVars == <<query, result>>

\* ingestVars and mainVars without pc, and without file.
ingestVars_ == <<source, worksheet, page, df_data, df_notes, new_op, ops, cursor, raised>>

mainVars_ == <<today, file, reply, operations, start_date, end_date_web, month, curdate, run>>

vars == <<nameVars, ingestVars, mainVars, queryVars>>

(***************************************************************************)
(* Generic helpers.                                                        *)
(***************************************************************************)
None == "<None>"

Max(S) == CHOOSE x \in S : \A y \in S : y <= x

Min(S) == CHOOSE x \in S : \A y \in S : x <= y

SeqsUpTo(S, n) == UNION { [1..k -> S] : k \in 0..n }

Range(f) == { f[i] : i \in DOMAIN f }

(***************************************************************************)
(* Tokens of a description.                                                *)
(*   word      any text without a phrase the program searches for          *)
(*   phrase    one of the literal phrases of the rule table or regexes     *)
(*   more      "more than <arg> years)"                                    *)
(*   upto      "up to <arg> years)"                                        *)
(*   uptoopen  "up to <arg> years"   (no closing parenthesis)              *)
(*   offered   "/offered in the <arg>/"                                    *)
(***************************************************************************)
Word(w) == [kind |-> "word", arg |-> w]

Phrase(p) == [kind |-> "phrase", arg |-> p]

MoreThan(x) == [kind |-> "more", arg |-> x]

UpTo(y) == [kind |-> "upto", arg |-> y]

UpToOpen(y) == [kind |-> "uptoopen", arg |-> y]

Offered(s) == [kind |-> "offered", arg |-> s]

P_CorpBonds == "Outright purchases of Corporate Bonds"
P_CP == "Outright purchases of CP"
P_TBills == "Outright purchases of T-Bills"
P_Inflation == "inflation-indexed bonds"
P_Floating == "floating-rate bonds"
P_USDPooled == "US Dollar Funds-Supplying Operations against Pooled Collateral"
P_Pooled == "Funds-Supplying Operations against Pooled Collateral"
P_Repo == "(Sales of JGSs under repurchase agreements)"
P_AllOffices == "(at All Offices)"
P_FixedRate == "(fixed-rate method)"
P_MaturityOf == "maturity of"

\* re.IGNORECASE: the text of a phrase with its letter case folded to the
\* spelling the patterns use.
FoldCase(text) ==
    CASE text = "OUTRIGHT PURCHASES OF CP" -> P_CP
      [] text = "(FIXED-RATE METHOD)" -> P_FixedRate
      [] text = "MATURITY OF" -> P_MaturityOf
      [] OTHER -> text

\* Whether the text of token tok ends with (starts with, contains) phrase p.
\* The US-dollar pooled-collateral phrase ends with the generic one.
EndsWith(tok, p) ==
    /\ tok.kind = "phrase"
    /\ \/ FoldCase(tok.arg) = p
       \/ FoldCase(tok.arg) = P_USDPooled /\ p = P_Pooled

StartsWith(tok, p) == tok.kind = "phrase" /\ FoldCase(tok.arg) = p

Contains(tok, p) == EndsWith(tok, p) \/ StartsWith(tok, p)

\* Whether the text of a token holds a "/".
HasSlash(tok) == tok.kind = "offered" \/ (tok.kind = "word" /\ tok.arg = "a/b")

(***************************************************************************)
(* get_short_name (project.py 199-262).                                    *)
(***************************************************************************)
\* The outcomes of a call: a returned value or a raised exception.
Returned(v) == [exc |-> "none", value |-> v, msg |-> "", arg |-> <<>>]

Raised(e, m, a) == [exc |-> e, value |-> None, msg |-> m, arg |-> a]

\* The ordered table of literal searches (210-219): pattern, a sequence of
\* phrases that must stand in consecutive tokens, and short name.
searches ==
    << [pat |-> <<P_CorpBonds>>, name |-> "Corporate Bonds"],
       [pat |-> <<P_CP>>, name |-> "CP"],
       [pat |-> <<P_TBills>>, name |-> "TB"],
       [pat |-> <<P_Inflation>>, name |-> "JGBs: Inflation Linked"],
       [pat |-> <<P_Floating>>, name |-> "JGBs: Floating Rate"],
       [pat |-> <<P_USDPooled, P_Repo>>, name |-> "USD: JGS PC"],
       [pat |-> <<P_USDPooled>>, name |-> "USD: PC"],
       [pat |-> <<P_Pooled, P_AllOffices>>, name |-> "Funds-Supplying Operations"] >>

\* re.findall(s, long_name, re.IGNORECASE) is non-empty.
FindAll(pat, name) ==
    \E i \in 1..Len(name) :
        IF Len(pat) = 1
        THEN Contains(name[i], pat[1])
        ELSE /\ i + 1 <= Len(name)
             /\ EndsWith(name[i], pat[1])
             /\ StartsWith(name[i + 1], pat[2])

\* (a variant of FirstSearchHit in which the last matching rule wins)
LastSearchHit(name) ==
    LET hits == { r \in 1..Len(searches) : FindAll(searches[r].pat, name) }
    IN  IF hits = {} THEN 0 ELSE Max(hits)

\* The rule of the table that returns (221-224): 0 when none matches.
FirstSearchHit(name) ==
    LET hits == { r \in 1..Len(searches) : FindAll(searches[r].pat, name) }
    IN  IF hits = {} THEN 0 ELSE Min(hits)

IsPhrase(tok, p) == tok.kind = "phrase" /\ FoldCase(tok.arg) = p

\* Where re.match(".+ " + re_txt) puts "maturity of " (229-237): the greedy
\* ".+" takes the last place that lets the rest match, and the rest always
\* matches because both bound groups are optional.  The phrase must be
\* preceded by text and a space and followed by a space; for the fixed-rate
\* pattern "(fixed-rate method)" must stand before it, itself preceded by text
\* and separated from "maturity of" by text.
MaturityPlaces(name, trans_type) ==
    { j \in 2..(Len(name) - 1) :
        /\ IsPhrase(name[j], P_MaturityOf)
        /\ trans_type = "fixed" =>
              \E i \in 2..(j - 2) : IsPhrase(name[i], P_FixedRate) }

\* group(1): "more than X years" right after "maturity of ".
Group1(name, j) ==
    IF name[j + 1].kind = "more" THEN name[j + 1].arg ELSE None

\* group(2): the last "up to Y years)" after group(1).
Group2(name, j) ==
    LET from == IF Group1(name, j) = None THEN j ELSE j + 1
        ups  == { u \in (from + 1)..Len(name) : name[u].kind = "upto" }
    IN  IF ups = {} THEN None ELSE name[Max(ups)].arg

\* (a variant of MaturityName that tests the groups in the wrong order)
MaturityNameSwapped(name, trans_type, j) ==
    LET out_txt == IF trans_type = "fixed" THEN "JGBs: " \o "FR " ELSE "JGBs: "
        g1 == Group1(name, j)
        g2 == Group2(name, j)
    IN  IF g1 = None
        THEN IF g2 = None
             THEN Raised("TypeError", "can only concatenate str (not NoneType) to str", <<>>)
             ELSE Returned(out_txt \o ">" \o g2 \o "y")
        ELSE IF g2 = None
             THEN Returned(out_txt \o "<" \o g1 \o "y")
             ELSE Returned(out_txt \o g1 \o "-" \o g2 \o "y")

\* 238-248 for one trans_type whose pattern matched at j.
MaturityName(name, trans_type, j) ==
    LET out_txt == IF trans_type = "fixed" THEN "JGBs: " \o "FR " ELSE "JGBs: "
        g1 == Group1(name, j)
        g2 == Group2(name, j)
    IN  IF g2 = None
        THEN IF g1 = None
             THEN Raised("TypeError", "can only concatenate str (not NoneType) to str", <<>>)
             ELSE Returned(out_txt \o ">" \o g1 \o "y")
        ELSE IF g1 = None
             THEN Returned(out_txt \o "<" \o g2 \o "y")
             ELSE Returned(out_txt \o g1 \o "-" \o g2 \o "y")

\* Where the session pattern (251) puts "/offered in the <token>/": right after
\* the repurchase phrase, which is preceded by text, and followed by more text.
SessionPlaces(name) ==
    { k \in 3..(Len(name) - 1) :
        /\ name[k].kind = "offered"
        /\ IsPhrase(name[k - 1], P_Repo) }

\* group(1) of the session pattern: greedy up to the last "/" with text after
\* it, so it is the session word alone only when no later token has a "/".
SessionGroup(name, k) ==
    IF \E u \in (k + 1)..Len(name) : HasSlash(name[u])
    THEN name[k].arg \o "/ ..."
    ELSE name[k].arg

\* (a variant of SessionName without the final else branch)
SessionNameLenient(name, k) ==
    LET g == SessionGroup(name, k)
    IN  IF g = "morning" THEN Returned("Sec. lending: am")
        ELSE Returned("Sec. lending: pm")

\* 252-259: the session rule once its pattern matched at k.
SessionName(name, k) ==
    LET g == SessionGroup(name, k)
    IN  IF g = "morning" THEN Returned("Sec. lending: am")
        ELSE IF g = "afternoon" THEN Returned("Sec. lending: pm")
        ELSE Raised("ValueError", "Expected morning / afternoon flag not found", <<>>)

get_short_name(name) ==
    LET hit == FirstSearchHit(name)
        fixed == MaturityPlaces(name, "fixed")
        floating == MaturityPlaces(name, "floating")
        session == SessionPlaces(name)
    IN  IF hit # 0 THEN Returned(searches[hit].name)
        ELSE IF fixed # {} THEN MaturityName(name, "fixed", Max(fixed))
        ELSE IF floating # {} THEN MaturityName(name, "floating", Max(floating))
        ELSE IF session # {} THEN SessionName(name, Max(session))
        ELSE Raised("ValueError", "Imstrument not recognized: ", name)

(***************************************************************************)
(* Frames (pandas DataFrames) are sequences of rows.  A number cell that   *)
(* may be empty is a record that says whether it is (NaN, None).           *)
(***************************************************************************)
NaN == [nan |-> TRUE, v |-> 0]

Num(n) == [nan |-> FALSE, v |-> n]

\* DataFrame.fillna(0) on one cell.
FillNa(c) == IF c.nan THEN 0 ELSE c.v

RECURSIVE SeqSum(_)
SeqSum(q) == IF q = <<>> THEN 0 ELSE q[1] + SeqSum(Tail(q))

\* The short names in the order Python compares strings, the order in which
\* groupby sorts its keys.
SortedNames ==
    << "CP", "Corporate Bonds", "Funds-Supplying Operations",
       "JGBs: 1-3y", "JGBs: 10-25y", "JGBs: 3-5y", "JGBs: 5-10y", "JGBs: <1y",
       "JGBs: >25y", "JGBs: FR 1-3y", "JGBs: FR 10-25y", "JGBs: FR 3-5y",
       "JGBs: FR 5-10y", "JGBs: Floating Rate", "JGBs: Inflation Linked",
       "Sec. lending: am", "Sec. lending: pm", "TB", "USD: JGS PC", "USD: PC" >>

Rank(name) == CHOOSE i \in 1..Len(SortedNames) : SortedNames[i] = name

\* name[0:3], for the two prefixes the program tests.
First3(name) ==
    IF name \in {"USD: JGS PC", "USD: PC"} THEN "USD"
    ELSE IF Rank(name) \in 4..15 THEN "JGB"
    ELSE "other"

\* Group keys are <<Date, Successful Yield, Instrument>>, with 0 for a column
\* that is not part of the key; keys are ordered column by column.
KeyLE(a, b) ==
    \/ a[1] < b[1]
    \/ a[1] = b[1] /\ a[2] < b[2]
    \/ a[1] = b[1] /\ a[2] = b[2] /\ Rank(a[3]) <= Rank(b[3])

RECURSIVE SortKeys(_)
SortKeys(S) ==
    IF S = {} THEN <<>>
    ELSE LET m == CHOOSE k \in S : \A o \in S : KeyLE(k, o)
         IN  <<m>> \o SortKeys(S \ {m})

\* The columns a frame is grouped by, as a key that SortKeys can order: the
\* date, the yield and the instrument, 0 for a column that is not grouped by.
KeyOf(by, r) ==
    << IF "Date" \in Range(by) THEN r.Date ELSE 0,
       IF "Successful Yield" \in Range(by) THEN r.SuccessfulYield ELSE 0,
       r.Instrument >>

\* df.groupby(by).sum() followed by reset_index: one row per key, in key
\* order, every column that is not a key summed over the rows of the key.
GroupBySum(rows, by) ==
    LET keys == SortKeys({ KeyOf(by, rows[i]) : i \in 1..Len(rows) })
    IN  [ i \in 1..Len(keys) |->
            LET g == SelectSeq(rows, LAMBDA r : KeyOf(by, r) = keys[i])
            IN  [ Date |-> g[1].Date,
                  Instrument |-> g[1].Instrument,
                  CompetitiveBids |-> SeqSum([j \in 1..Len(g) |-> g[j].CompetitiveBids]),
                  SuccessfulBids |-> SeqSum([j \in 1..Len(g) |-> g[j].SuccessfulBids]),
                  SuccessfulYield |->
                      IF "Successful Yield" \in Range(by)
                      THEN g[1].SuccessfulYield
                      ELSE SeqSum([j \in 1..Len(g) |-> g[j].SuccessfulYield]) ] ]

(***************************************************************************)
(* clean_up_data (project.py 163-196): the daily results table.  A raw row *)
(* is [Instrument (description), Competitive, Successful, Yield (cells)].  *)
(***************************************************************************)
clean_up_data(raw, date) ==
    LET names == [i \in 1..Len(raw) |-> get_short_name(raw[i].Instrument)]
        failed == { i \in 1..Len(raw) : names[i].exc # "none" }
        filled == [ i \in 1..Len(raw) |->
                      [ Date |-> date,
                        Instrument |-> names[i].value,
                        CompetitiveBids |-> FillNa(raw[i].Competitive),
                        SuccessfulBids |-> FillNa(raw[i].Successful),
                        SuccessfulYield |-> FillNa(raw[i].Yield) ] ]
    IN  IF failed # {} THEN names[Min(failed)]
        ELSE Returned(GroupBySum(filled, <<"Instrument">>))

(***************************************************************************)
(* clean_up_notes (project.py 121-160): the notes of the daily offer page. *)
(* A note line either fits the purchasing-yield sentence, giving a         *)
(* maturity and a rate, or it does not.                                    *)
(***************************************************************************)
YieldNote(m, r) == [kind |-> "yield", Maturity |-> m, Rate |-> r]

TextNote == [kind |-> "text", Maturity |-> 0, Rate |-> 0]

\* DataFrame.drop_duplicates: the first of equal rows is kept.
RECURSIVE DropDuplicates(_)
DropDuplicates(q) ==
    IF q = <<>> THEN <<>>
    ELSE LET front == DropDuplicates(SubSeq(q, 1, Len(q) - 1))
         IN  IF q[Len(q)] \in Range(front) THEN front ELSE Append(front, q[Len(q)])

clean_up_notes(notes, date) ==
    LET matched == SelectSeq(notes, LAMBDA n : n.kind = "yield")
        pairs == [ i \in 1..Len(matched) |->
                     [Maturity |-> matched[i].Maturity, Rate |-> matched[i].Rate] ]
        unique == DropDuplicates(pairs)
    IN  [ i \in 1..Len(unique) |->
            [Maturity |-> unique[i].Maturity, Rate |-> unique[i].Rate, Date |-> date] ]

(***************************************************************************)
(* Operation and Transaction (project_classes.py).                         *)
(***************************************************************************)
Transaction(instrument, currency, units) ==
    [ Instrument |-> instrument, Currency |-> currency, Units |-> units,
      Rate |-> NaN, SuccessfulBids |-> NaN, CompetitiveBids |-> NaN ]

Operation(transdate) == [Date |-> transdate, Transactions |-> <<>>]

\* Operation.AddTransaction (102-117): appends, whatever is there already.
AddTransaction(op, instrument, currency, unit) ==
    [op EXCEPT !.Transactions = Append(@, Transaction(instrument, currency, unit))]

\* Operation.Instruments (143-150).
Instruments(op) == [i \in 1..Len(op.Transactions) |-> op.Transactions[i].Instrument]

\* Operation.Transaction (157-171): the index of the first Transaction of the
\* instrument, 0 for None.
FindTransaction(op, instrument) ==
    LET hits == { i \in 1..Len(op.Transactions) :
                    op.Transactions[i].Instrument = instrument }
    IN  IF hits = {} THEN 0 ELSE Min(hits)

(***************************************************************************)
(* add_operation (project.py 265-314), one loop iteration at a time.       *)
(***************************************************************************)
\* 281-291: the Transaction of one row of df_data.
AddRow(op, row) ==
    LET usd == First3(row.Instrument) = "USD"
        currency == IF usd THEN "USD" ELSE "JPY"
        unit == IF usd THEN 1 ELSE 100
        added == AddTransaction(op, row.Instrument, currency, unit)
        n == Len(added.Transactions)
    IN  [added EXCEPT !.Transactions[n].CompetitiveBids = Num(row.CompetitiveBids),
                      !.Transactions[n].SuccessfulBids = Num(row.SuccessfulBids),
                      !.Transactions[n].Rate = Num(row.SuccessfulYield)]

\* 297-307 and 433-442: the bucket of a fixed-rate maturity, None for the
\* else branch that raises.
FixedRateBucket(maturity) ==
    CASE maturity = 5 -> "JGBs: FR 3-5y"
      [] maturity = 2 -> "JGBs: FR 1-3y"
      [] maturity = 10 -> "JGBs: FR 5-10y"
      [] maturity = 20 -> "JGBs: FR 10-25y"
      [] OTHER -> None

\* (a variant of AddRate that skips an annotation whose bucket has no Transaction)
AddRateSkipping(op, note) ==
    LET instrument == FixedRateBucket(note.Maturity)
        at == IF instrument = None THEN 0 ELSE FindTransaction(op, instrument)
    IN  IF instrument = None
        THEN Raised("ValueError", "Unrecognized fixed rate operation maturity", <<>>)
        ELSE IF at = 0
        THEN Returned(op)
        ELSE Returned([op EXCEPT !.Transactions[at].Rate = Num(note.Rate)])

\* 295-313: one row of df_notes.
AddRate(op, note) ==
    LET instrument == FixedRateBucket(note.Maturity)
        at == IF instrument = None THEN 0 ELSE FindTransaction(op, instrument)
    IN  IF instrument = None
        THEN Raised("ValueError", "Unrecognized fixed rate operation maturity", <<>>)
        ELSE IF at = 0
        THEN Raised("ValueError", "Unrecognized fixed rate operation maturity", <<>>)
        ELSE Returned([op EXCEPT !.Transactions[at].Rate = Num(note.Rate)])

\* add_operation as one call: the rows, then the notes, stopping at the first
\* exception.
RECURSIVE AddRows(_, _)
AddRows(op, rows) ==
    IF rows = <<>> THEN op ELSE AddRows(AddRow(op, rows[1]), Tail(rows))

RECURSIVE AddRates(_, _)
AddRates(op, notes) ==
    IF notes = <<>> THEN Returned(op)
    ELSE LET r == AddRate(op, notes[1])
         IN  IF r.exc # "none" THEN r ELSE AddRates(r.value, Tail(notes))

add_operation(date, rows, notes) == AddRates(AddRows(Operation(date), rows), notes)

\* df_data["Date"].unique() (329): the dates in order of first appearance.
UniqueDates(rows) == DropDuplicates([i \in 1..Len(rows) |-> rows[i].Date])

\* df_data.loc[df_data["Date"].isin([curdate])] (331).
OneDay(rows, date) == SelectSeq(rows, LAMBDA r : r.Date = date)

(***************************************************************************)
(* get_excel_data (project.py 337-459): the monthly worksheet.             *)
(*                                                                         *)
(* A worksheet is [ncols, rows].  A row holds the cells the program reads, *)
(* each [t |-> type, v |-> value]:                                         *)
(*   c0     column 0: text ("str"), text holding "(fixed-rate method)"     *)
(*          ("frm"), a datetime ("datetime", v the day), an Excel day      *)
(*          count ("number") or empty ("nan")                              *)
(*   comp   Competitive Bids  (column 4 of 13, 3 of 11)                    *)
(*   succ   Successful Bids   (column 5 of 13, 4 of 11)                    *)
(*   yield  Successful Yield  (column 8 of 13, 7 of 11)                    *)
(*   instr  the maturity text (column 11 of 13, 10 of 11), v its tokens    *)
(*   note   column 12: the fixed-rate text "<m>-year JGB ... : <r>%",      *)
(*          v = [match, Maturity, Rate]                                    *)
(***************************************************************************)
ExcelEpoch == 25569

Cell(t, v) == [t |-> t, v |-> v]

NoNumber == Cell("nan", 0)

NoText == Cell("nan", <<>>)

NoNote == Cell("nan", [match |-> FALSE, Maturity |-> 0, Rate |-> 0])

FixedRateText(m, r) == Cell("str", [match |-> TRUE, Maturity |-> m, Rate |-> r])

\* row[4], the column the scan tests.
Column4(sheet, row) == IF sheet.ncols = 11 THEN row.succ ELSE row.comp

\* 360-375: the scan for the integer blocks, row by row from index i (the
\* index of the first row is 0); st is [start, starts, FRM].
RECURSIVE ScanRows(_, _, _)
ScanRows(sheet, i, st) ==
    IF i >= Len(sheet.rows) THEN st
    ELSE LET row == sheet.rows[i + 1]
             isint == Column4(sheet, row).t = "int"
             frm == IF row.c0.t = "frm" THEN i ELSE st.FRM
             start == IF st.start = 0 /\ isint THEN i ELSE st.start
             closes == start # 0 /\ ~isint
         IN  ScanRows(sheet, i + 1,
                 [ FRM |-> frm,
                   start |-> IF closes THEN 0 ELSE start,
                   starts |-> IF closes THEN Append(st.starts, <<start, i - 1>>)
                              ELSE st.starts ])

Scan(sheet) == ScanRows(sheet, 0, [FRM |-> 0, start |-> 0, starts |-> <<>>])

\* df.iloc[a : b]: the rows of index a .. b - 1.
ILoc(rows, a, b) ==
    LET hi == IF b > Len(rows) THEN Len(rows) ELSE b
    IN  IF a >= hi THEN <<>> ELSE SubSeq(rows, a + 1, hi)

\* 392-395: a datetime cell keeps its day; any other value is taken for an
\* Excel day count (local time at or east of Greenwich).
ExcelDate(c) ==
    IF c.t = "datetime" THEN Returned(c.v)
    ELSE IF c.t = "number" THEN Returned(c.v - ExcelEpoch)
    ELSE Raised("TypeError", "unsupported operand type(s) for -", <<>>)

\* 396-405: the name of an auction row from its maturity text.
ExcelName(c) ==
    LET text == c.v
        more_than == IF Len(text) > 0 /\ text[1].kind = "more" THEN text[1].arg ELSE None
        ups == { u \in 1..Len(text) : text[u].kind \in {"upto", "uptoopen"} }
        less_than == IF ups = {} THEN None ELSE text[Max(ups)].arg
    IN  IF c.t # "str"
        THEN Raised("TypeError", "expected string or bytes-like object", <<>>)
        ELSE IF more_than = None
        THEN IF less_than = None
             THEN Raised("AttributeError", "'NoneType' object has no attribute 'group'", <<>>)
             ELSE Returned("JGBs: <" \o less_than \o "y")
        ELSE IF less_than = None
        THEN Returned("JGBs: >" \o more_than \o "y")
        ELSE Returned("JGBs: " \o more_than \o "-" \o less_than \o "y")

\* A cell of one of the number columns, as groupby adds it up after fillna(0).
Number(c) == IF c.t \in {"int", "float"} THEN c.v ELSE 0

\* 391-405 for one row of the auction table.
AuctionRow(row) ==
    LET d == ExcelDate(row.c0)
        n == ExcelName(row.instr)
    IN  IF d.exc # "none" THEN d
        ELSE IF n.exc # "none" THEN n
        ELSE Returned([ Date |-> d.value, Instrument |-> n.value,
                        CompetitiveBids |-> Number(row.comp),
                        SuccessfulBids |-> Number(row.succ),
                        SuccessfulYield |-> Number(row.yield) ])

\* 425-444 for one row of the fixed-rate table.
FixedRateRow(row) ==
    LET d == ExcelDate(row.c0)
        instrument == FixedRateBucket(row.note.v.Maturity)
    IN  IF d.exc # "none" THEN d
        ELSE IF row.note.t # "str"
        THEN Raised("TypeError", "expected string or bytes-like object", <<>>)
        ELSE IF ~row.note.v.match
        THEN Raised("AttributeError", "'NoneType' object has no attribute 'group'", <<>>)
        ELSE IF instrument = None
        THEN Raised("ValueError", "Unrecognized fixed rate operation maturity", <<>>)
        ELSE Returned([ Date |-> d.value, Instrument |-> instrument,
                        CompetitiveBids |-> Number(row.comp),
                        SuccessfulBids |-> Number(row.succ),
                        SuccessfulYield |-> row.note.v.Rate ])

\* The outcomes of the rows of a loop, one after the other: the values, or
\* the exception of the first row that fails.
Collect(out) ==
    LET failed == { i \in 1..Len(out) : out[i].exc # "none" }
    IN  IF failed # {} THEN out[Min(failed)]
        ELSE Returned([i \in 1..Len(out) |-> out[i].value])

\* df_full.sort_values("Date") (457): rows in date order, rows of one date in
\* the order they had.
RECURSIVE SortByDate(_)
SortByDate(rows) ==
    IF rows = <<>> THEN <<>>
    ELSE LET first == Min({ rows[i].Date : i \in 1..Len(rows) })
         IN  SelectSeq(rows, LAMBDA r : r.Date = first)
             \o SortByDate(SelectSeq(rows, LAMBDA r : r.Date # first))

\* 412-450: the fixed-rate table, an empty frame when it is taken for absent.
FixedRateTable(sheet, st) ==
    IF Len(st.starts) < 2 THEN Returned(<<>>)
    ELSE IF st.starts[2][1] - st.FRM # 9 THEN Returned(<<>>)
    ELSE IF sheet.ncols < 13
    THEN Raised("IndexError", "positional indexers are out-of-bounds", <<>>)
    ELSE LET df_notes_ == ILoc(sheet.rows, st.starts[2][1], st.starts[2][2])
             conv == Collect([i \in 1..Len(df_notes_) |-> FixedRateRow(df_notes_[i])])
         IN  IF conv.exc # "none" THEN conv
             ELSE Returned(GroupBySum(conv.value, <<"Date", "Successful Yield", "Instrument">>))

\* 358-459, for a worksheet that could be read.
get_excel_data(sheet) ==
    LET st == Scan(sheet)
        df_data_ == ILoc(sheet.rows, st.starts[1][1], st.starts[1][2])
        conv == Collect([i \in 1..Len(df_data_) |-> AuctionRow(df_data_[i])])
        df_notes_ == FixedRateTable(sheet, st)
    IN  IF st.starts = <<>>
        THEN Raised("IndexError", "list index out of range", <<>>)
        ELSE IF sheet.ncols \notin {13, 11}
        THEN Raised("ValueError", "Shape not recognized", <<>>)
        ELSE IF conv.exc # "none" THEN conv
        ELSE IF df_notes_.exc # "none" THEN df_notes_
        ELSE Returned(SortByDate(GroupBySum(conv.value, <<"Date", "Instrument">>)
                                 \o df_notes_.value))

(***************************************************************************)
(* Values of the variables a specification does not use.                   *)
(***************************************************************************)
NoException == Returned("")

NoSheet == [missing |-> TRUE, ncols |-> 0, rows |-> <<>>]

\* A day's two pages: the number of tables pd.read_html finds on the results
\* page and on the offer page (none when the page does not exist), the rows
\* of the results table and of the notes table.
NoPage == [missing |-> TRUE, tables |-> 0, offer |-> 0, date |-> 0, data |-> <<>>, notes |-> <<>>]

NoFile == [exists |-> FALSE, entries |-> <<>>]

NotCalled == [exc |-> "none", value |-> "<not called>", msg |-> "", arg |-> <<>>]

IngestIdle ==
    /\ source = "none"
    /\ worksheet = NoSheet
    /\ page = NoPage
    /\ df_data = <<>>
    /\ df_notes = <<>>
    /\ new_op = Operation(0)
    /\ ops = <<>>
    /\ cursor = [date |-> 1, row |-> 1, note |-> 1]
    /\ pc = "idle"
    /\ raised = NoException

NameIdle ==
    /\ long_name = <<>>
    /\ short_name = NotCalled

MainIdle ==
    /\ today = 0
    /\ file = NoFile
    /\ reply = "Y"
    /\ operations = <<>>
    /\ start_date = 0
    /\ end_date_web = 0
    /\ month = 0
    /\ curdate = 0
    /\ run = 0

NoQuery == [fn |-> "none"]

QueryIdle ==
    /\ query = NoQuery
    /\ result = NoException

(***************************************************************************)
(* Ingesting one unit: one monthly worksheet (the body of the loop of      *)
(* get_historical_excel_data, 481-484) or one day's pages (the body of the *)
(* loop of get_web_data, 520-534).                                         *)
(***************************************************************************)
\* get_excel_data: None for a worksheet that cannot be retrieved (354-356).
ReadExcel ==
    /\ pc = "read" /\ source = "excel"
    /\ IF worksheet.missing
       THEN /\ pc' = "done"
            /\ UNCHANGED <<df_data, raised>>
       ELSE LET r == get_excel_data(worksheet)
            IN  IF r.exc # "none"
                THEN /\ pc' = "raised"
                     /\ raised' = r
                     /\ UNCHANGED df_data
                ELSE /\ pc' = "build"
                     /\ df_data' = r.value
                     /\ UNCHANGED raised
    /\ cursor' = [date |-> 1, row |-> 1, note |-> 1]
    /\ UNCHANGED <<source, worksheet, page, df_notes, new_op, ops, nameVars, mainVars, queryVars>>

\* clean_up_data on the results table (520-521).
CleanUpData ==
    /\ pc = "read" /\ source = "web"
    /\ LET r == clean_up_data(page.data, page.date)
       IN  IF r.exc # "none"
           THEN /\ pc' = "raised"
                /\ raised' = r
                /\ UNCHANGED df_data
           ELSE /\ pc' = "notes"
                /\ df_data' = r.value
                /\ UNCHANGED raised
    /\ UNCHANGED <<source, worksheet, page, df_notes, new_op, ops, cursor, nameVars, mainVars, queryVars>>

\* clean_up_notes on the notes of the offer page (529-530).
CleanUpNotes ==
    /\ pc = "notes" /\ source = "web"
    /\ df_notes' = clean_up_notes(page.notes, page.date)
    /\ cursor' = [date |-> 1, row |-> 1, note |-> 1]
    /\ pc' = "build"
    /\ UNCHANGED <<source, worksheet, page, df_data, new_op, ops, raised, nameVars, mainVars, queryVars>>

\* The dates add_operations goes through (329).
Dates == IF source = "excel" THEN UniqueDates(df_data) ELSE <<page.date>>

\* The rows and notes add_operation is called with (331-332, 533).
RowsOfCall ==
    IF source = "excel" THEN OneDay(df_data, new_op.Date) ELSE df_data

NotesOfCall == IF source = "excel" THEN <<>> ELSE df_notes

\* add_operation is entered: new_op = Operation(curdate) (278).
StartOperation ==
    /\ pc = "build"
    /\ cursor.date <= Len(Dates)
    /\ new_op' = Operation(Dates[cursor.date])
    /\ cursor' = [cursor EXCEPT !.row = 1, !.note = 1]
    /\ pc' = "rows"
    /\ UNCHANGED <<source, worksheet, page, df_data, df_notes, ops, raised, nameVars, mainVars, queryVars>>

\* One iteration of the loop over df_data (281-291).
AddTransactionStep ==
    /\ pc = "rows"
    /\ cursor.row <= Len(RowsOfCall)
    /\ new_op' = AddRow(new_op, RowsOfCall[cursor.row])
    /\ cursor' = [cursor EXCEPT !.row = @ + 1]
    /\ UNCHANGED <<source, worksheet, page, df_data, df_notes, ops, pc, raised, nameVars, mainVars, queryVars>>

\* One iteration of the loop over df_notes (295-313).
AddRateStep ==
    /\ pc = "rows"
    /\ cursor.row > Len(RowsOfCall)
    /\ cursor.note <= Len(NotesOfCall)
    /\ LET r == AddRate(new_op, NotesOfCall[cursor.note])
       IN  IF r.exc # "none"
           THEN /\ pc' = "raised"
                /\ raised' = r
                /\ UNCHANGED new_op
           ELSE /\ new_op' = r.value
                /\ UNCHANGED <<pc, raised>>
    /\ cursor' = [cursor EXCEPT !.note = @ + 1]
    /\ UNCHANGED <<source, worksheet, page, df_data, df_notes, ops, nameVars, mainVars, queryVars>>

\* add_operation returns and the Operation is appended (314, 333, 534).
ReturnOperation ==
    /\ pc = "rows"
    /\ cursor.row > Len(RowsOfCall)
    /\ cursor.note > Len(NotesOfCall)
    /\ ops' = Append(ops, new_op)
    /\ cursor' = [cursor EXCEPT !.date = @ + 1]
    /\ pc' = "build"
    /\ UNCHANGED <<source, worksheet, page, df_data, df_notes, new_op, raised, nameVars, mainVars, queryVars>>

\* The list of Operations is complete (334, 484, 534).
ReturnOperations ==
    /\ pc = "build"
    /\ cursor.date > Len(Dates)
    /\ pc' = "done"
    /\ UNCHANGED <<source, worksheet, page, df_data, df_notes, new_op, ops, cursor, raised, nameVars, mainVars, queryVars>>

NextIngest ==
    \/ ReadExcel
    \/ CleanUpData
    \/ CleanUpNotes
    \/ StartOperation
    \/ AddTransactionStep
    \/ AddRateStep
    \/ ReturnOperation
    \/ ReturnOperations

(***************************************************************************)
(* The inputs of the ingestion: worksheets and daily pages.                *)
(***************************************************************************)
MaxBlock == 3       \* rows of a table of a worksheet
MaxDataRows == 2    \* rows of the daily results table
MaxNotes == 2       \* lines of the daily notes table

\* Non-empty sequences over S of at most n elements.
Seqs1UpTo(S, n) == UNION { [1..k -> S] : k \in 1..n }

Repeat(x, n) == [i \in 1..n |-> x]

\* A worksheet row is [c0, comp, succ, yield, instr, note]: the date or title
\* column, the three number columns, the maturity text of the auction table
\* (column 11, or 10 of the narrow layout) and that of the fixed-rate table
\* (column 12).
TextRow ==
    [ c0 |-> Cell("str", 0), comp |-> NoNumber, succ |-> NoNumber, yield |-> NoNumber,
      instr |-> NoText, note |-> NoNote ]

TitleRow == [TextRow EXCEPT !.c0 = Cell("frm", 0)]

AuctionRowOf(date, comp, succ, yield, text) ==
    [ c0 |-> date, comp |-> Cell("int", comp), succ |-> Cell("int", succ),
      yield |-> Cell("float", yield), instr |-> Cell("str", text), note |-> NoNote ]

FixedRowOf(date, succ, maturity, rate) ==
    [ c0 |-> date, comp |-> Cell("int", 0), succ |-> Cell("int", succ),
      yield |-> NoNumber, instr |-> NoText, note |-> FixedRateText(maturity, rate) ]

\* Day 1 as an Excel day count and as a datetime, day 2 as a day count.
AuctionKinds ==
    { AuctionRowOf(Cell("number", ExcelEpoch + 1), 120, 100, 10, <<MoreThan("5"), UpTo("10")>>),
      AuctionRowOf(Cell("datetime", 1), 60, 50, 20, <<MoreThan("5"), UpTo("10")>>),
      AuctionRowOf(Cell("number", ExcelEpoch + 2), 30, 20, 5, <<UpToOpen("1")>>) }

FixedKinds ==
    { FixedRowOf(Cell("number", ExcelEpoch + 1), 40, 10, 250),
      FixedRowOf(Cell("datetime", 1), 30, 10, 500),
      FixedRowOf(Cell("number", ExcelEpoch + 2), 10, 2, 250) }

\* Worksheets of the usual layout, one row of text above the auction table,
\* the fixed-rate title nine rows above its table, with every choice of rows.
ContentSheets ==
    { [ missing |-> FALSE, ncols |-> 13,
        rows |-> <<TextRow>> \o b1 \o <<TitleRow>> \o Repeat(TextRow, 8) \o b2 \o <<TextRow>> ] :
      b1 \in Seqs1UpTo(AuctionKinds, MaxBlock), b2 \in SeqsUpTo(FixedKinds, MaxBlock) }

\* Worksheets with fixed rows and every layout: rows of text above the auction
\* table, the distance of the fixed-rate title, rows of text below the last
\* table, the number of columns.
LayoutSheets ==
    LET a == CHOOSE r \in AuctionKinds : r.c0.t = "datetime"
        f == CHOOSE r \in FixedKinds : r.c0.t = "datetime"
    IN  { [ missing |-> FALSE, ncols |-> c,
            rows |-> Repeat(TextRow, lead) \o Repeat(a, n1) \o <<TitleRow>>
                     \o Repeat(TextRow, gap) \o Repeat(f, n2) \o Repeat(TextRow, trail) ] :
          lead \in 0..1, n1 \in 1..MaxBlock, gap \in {7, 8}, n2 \in 0..MaxBlock,
          trail \in 0..1, c \in {11, 12, 13} }

Sheets == ContentSheets \cup LayoutSheets \cup {NoSheet}

RawRow(description, comp, succ, yield) ==
    [Instrument |-> description, Competitive |-> comp, Successful |-> succ, Yield |-> yield]

\* Rows of the daily results table: two spellings of the 5-10 year auction,
\* two fixed-rate purchases, a dollar operation, and a description that no
\* rule places.
RawRowKinds ==
    { RawRow(<<Word("x"), Phrase(P_MaturityOf), MoreThan("5"), UpTo("10")>>,
             Num(120), Num(100), Num(10)),
      RawRow(<<Word("x"), Word("x"), Phrase(P_MaturityOf), MoreThan("5"), UpTo("10")>>,
             Num(60), Num(50), Num(20)),
      RawRow(<<Word("x"), Phrase(P_FixedRate), Word("x"), Phrase(P_MaturityOf),
               MoreThan("5"), UpTo("10")>>, NaN, Num(40), NaN),
      RawRow(<<Word("x"), Phrase(P_FixedRate), Word("x"), Phrase(P_MaturityOf),
               MoreThan("1"), UpTo("3")>>, NaN, Num(10), NaN),
      RawRow(<<Phrase(P_USDPooled)>>, Num(7), Num(5), Num(30)),
      RawRow(<<Word("x")>>, Num(1), Num(1), Num(1)) }

NoteKinds ==
    { YieldNote(10, 250), YieldNote(10, 500), YieldNote(2, 250), YieldNote(7, 250),
      TextNote }

Pages ==
    { [missing |-> FALSE, tables |-> 2, offer |-> 3, date |-> 1, data |-> d, notes |-> n] :
      d \in SeqsUpTo(RawRowKinds, MaxDataRows), n \in SeqsUpTo(NoteKinds, MaxNotes) }

InitIngest ==
    /\ source \in {"excel", "web"}
    /\ worksheet \in (IF source = "excel" THEN Sheets ELSE {NoSheet})
    /\ page \in (IF source = "web" THEN Pages ELSE {NoPage})
    /\ df_data = <<>>
    /\ df_notes = <<>>
    /\ new_op = Operation(0)
    /\ ops = <<>>
    /\ cursor = [date |-> 1, row |-> 1, note |-> 1]
    /\ pc = "read"
    /\ raised = NoException
    /\ NameIdle
    /\ MainIdle
    /\ QueryIdle

SpecIngest == InitIngest /\ [][NextIngest]_vars

(***************************************************************************)
(* The backup file (project.py 800-864).  The file is a JSON object keyed  *)
(* by the date text, in the order the keys were first assigned.            *)
(***************************************************************************)
MonthLen == 30      \* days of a month of the model's calendar

MonthOf(d) == d \div MonthLen

FirstOfMonth(m) == m * MonthLen

\* op.Date.strftime("%Y-%m-%d") (817).
DateKey(d) == [month |-> MonthOf(d), day |-> (d % MonthLen) + 1]

\* datetime.datetime.strptime(key, "%Y-%m-%d").date() (856).
KeyDate(key) == FirstOfMonth(key.month) + key.day - 1

\* 815-829: json_ops[date] = op_dic for every Operation in turn.
RECURSIVE JsonOps(_)
JsonOps(ops_) ==
    IF ops_ = <<>> THEN <<>>
    ELSE LET json_ops == JsonOps(SubSeq(ops_, 1, Len(ops_) - 1))
             op == ops_[Len(ops_)]
             op_dic == [key |-> DateKey(op.Date), Transactions |-> op.Transactions]
             same == { i \in 1..Len(json_ops) : json_ops[i].key = op_dic.key }
         IN  IF same = {} THEN Append(json_ops, op_dic)
             ELSE [json_ops EXCEPT ![Min(same)] = op_dic]

\* 800-834, when the file can be written.
save_to_json(ops_) == [exists |-> TRUE, entries |-> JsonOps(ops_)]

\* 857-862: the Operation of one entry; int() and float() of a null fail.
LoadEntry(entry) ==
    LET nulls == { i \in 1..Len(entry.Transactions) :
                     entry.Transactions[i].SuccessfulBids.nan
                     \/ entry.Transactions[i].Rate.nan }
    IN  IF nulls # {}
        THEN Raised("TypeError", "argument must be a string or a number, not 'NoneType'", <<>>)
        ELSE Returned([ Date |-> KeyDate(entry.key),
                        Transactions |->
                            [ i \in 1..Len(entry.Transactions) |->
                                LET trans == entry.Transactions[i]
                                IN  [ Transaction(trans.Instrument, trans.Currency, trans.Units)
                                      EXCEPT !.CompetitiveBids = trans.CompetitiveBids,
                                             !.SuccessfulBids = trans.SuccessfulBids,
                                             !.Rate = trans.Rate ] ] ])

\* 837-864.
load_from_json(f) ==
    IF ~f.exists THEN Returned(<<>>)
    ELSE Collect([i \in 1..Len(f.entries) |-> LoadEntry(f.entries[i])])

(***************************************************************************)
(* The values of an Operation (project_classes.py 173-212).  A value is    *)
(* successful bids x units / 1000; the model keeps it in thousandths, so   *)
(* it is successful bids x units (200 x 100 / 1000 = 20.0 is 20000).       *)
(***************************************************************************)
\* 186-189: the first Transaction of the instrument, 0.0 (196) for none.
TransactionValueOf(op, instrument) ==
    LET at == FindTransaction(op, instrument)
    IN  IF at = 0 THEN Returned(0)
        ELSE IF op.Transactions[at].SuccessfulBids.nan
        THEN Raised("TypeError", "unsupported operand type(s) for *: 'NoneType' and 'int'", <<>>)
        ELSE Returned(op.Transactions[at].SuccessfulBids.v * op.Transactions[at].Units)

\* 190-195: the total of the Transactions whose name begins with "JGB".
TransactionValueTotal(op) ==
    LET jgbs == SelectSeq(op.Transactions, LAMBDA trans : First3(trans.Instrument) = "JGB")
    IN  IF \E i \in 1..Len(jgbs) : jgbs[i].SuccessfulBids.nan
        THEN Raised("TypeError", "unsupported operand type(s) for *: 'NoneType' and 'int'", <<>>)
        ELSE Returned(SeqSum([i \in 1..Len(jgbs) |-> jgbs[i].SuccessfulBids.v * jgbs[i].Units]))

\* Operation.TransactionValue (173-196); None for the omitted argument.
TransactionValue(op, instrument) ==
    IF instrument # None THEN TransactionValueOf(op, instrument)
    ELSE TransactionValueTotal(op)

\* Operation.TransactionRate (198-212): the rate as it is, 0.0 for none.
TransactionRate(op, instrument) ==
    LET at == FindTransaction(op, instrument)
    IN  IF at = 0 THEN Num(0) ELSE op.Transactions[at].Rate

(***************************************************************************)
(* get_chart_data (project.py 538-617).  A frame is a sequence of rows     *)
(* [Date, values], one value per requested instrument; a value is          *)
(* [nan, v, n] and stands for v / n, so that a mean stays an integer pair. *)
(***************************************************************************)
\* 557-569: the JGB names that "All" stands for in the filter.
AllFilter ==
    { "JGBs: FR 5-10y", "JGBs: FR 1-3y", "JGBs: FR 3-5y", "JGBs: FR 10-25y",
      "JGBs: <1y", "JGBs: 1-3y", "JGBs: 3-5y", "JGBs: 5-10y", "JGBs: 10-25y",
      "JGBs: >25y", "JGBs: Inflation Linked" }

ChartCell(c) == [nan |-> c.nan, v |-> c.v, n |-> 1]

\* 589-597: the value of one Operation for one requested instrument.
ChartValue(op, inst, rate) ==
    IF rate THEN Returned(ChartCell(TransactionRate(op, inst)))
    ELSE LET r == TransactionValue(op, IF inst = "All" THEN None ELSE inst)
         IN  IF r.exc # "none" THEN r ELSE Returned(ChartCell(Num(r.value)))

\* 583-607: the daily row of one Operation.
ChartRow(op, instruments, rate) ==
    LET values == Collect([k \in 1..Len(instruments) |-> ChartValue(op, instruments[k], rate)])
    IN  IF values.exc # "none" THEN values
        ELSE Returned([Date |-> op.Date, values |-> values.value])

RECURSIVE Ascending(_)
Ascending(S) ==
    IF S = {} THEN <<>> ELSE <<Min(S)>> \o Ascending(S \ {Min(S)})

\* groupby(["Date"]).sum() or .mean() of one column of the rows of a month;
\* the mean leaves out the values that are not a number.
Aggregate(cells, rate) ==
    LET numbers == SelectSeq(cells, LAMBDA c : ~c.nan)
        total == SeqSum([i \in 1..Len(numbers) |-> numbers[i].v])
    IN  IF rate THEN [nan |-> numbers = <<>>, v |-> total, n |-> Max({1, Len(numbers)})]
        ELSE [nan |-> FALSE, v |-> total, n |-> 1]

\* A frame whose dates are moved to the first of the month and left as rows.
MonthlyUngrouped(rows, width, rate) ==
    [i \in 1..Len(rows) |-> [rows[i] EXCEPT !.Date = FirstOfMonth(MonthOf(rows[i].Date))]]

\* 609-615: the dates become the first of their month, and the rows of a
\* month one row, in the order of the months.
Monthly(rows, width, rate) ==
    LET months == Ascending({ FirstOfMonth(MonthOf(rows[i].Date)) : i \in 1..Len(rows) })
        Of(m) == SelectSeq(rows, LAMBDA r : FirstOfMonth(MonthOf(r.Date)) = m)
    IN  [ j \in 1..Len(months) |->
            [ Date |-> months[j],
              values |-> [ k \in 1..width |->
                             Aggregate([i \in 1..Len(Of(months[j])) |->
                                          Of(months[j])[i].values[k]], rate) ] ] ]

\* 579-617 once the filter and the mode are known.
ChartFrame(operations_, instruments, inst_filter, start, end, rate, monthly) ==
    LET ops_ == SelectSeq(operations_,
                          LAMBDA op : /\ op.Date >= start
                                      /\ op.Date <= end
                                      /\ Range(Instruments(op)) \cap inst_filter # {})
        daily == Collect([i \in 1..Len(ops_) |-> ChartRow(ops_[i], instruments, rate)])
    IN  IF daily.exc # "none" \/ ~monthly THEN daily
        ELSE Returned(Monthly(daily.value, Len(instruments), rate))

\* A get_chart_data that leaves the rate mode as it was asked for.
get_chart_data_as_asked(operations_, instruments, start, end, rate, monthly) ==
    IF "All" \in Range(instruments)
    THEN ChartFrame(operations_, instruments, AllFilter \cup Range(instruments),
                    start, end, rate, monthly)
    ELSE ChartFrame(operations_, instruments, Range(instruments), start, end, rate, monthly)

get_chart_data(operations_, instruments, start, end, rate, monthly) ==
    IF "All" \in Range(instruments)
    THEN ChartFrame(operations_, instruments, AllFilter \cup Range(instruments),
                    start, end, FALSE, monthly)
    ELSE ChartFrame(operations_, instruments, Range(instruments), start, end, rate, monthly)

AuctionList ==
    <<"JGBs: <1y", "JGBs: 1-3y", "JGBs: 3-5y", "JGBs: 5-10y", "JGBs: 10-25y", "JGBs: >25y">>

FixedRateList == <<"JGBs: FR 1-3y", "JGBs: FR 3-5y", "JGBs: FR 5-10y", "JGBs: FR 10-25y">>

\* 636-656: the six frames select_generate_charts asks for.
select_generate_charts(operations_, start, end) ==
    << get_chart_data(operations_, AuctionList, start, end, FALSE, TRUE),
       get_chart_data(operations_, FixedRateList, start, end, FALSE, TRUE),
       get_chart_data(operations_, <<"All">>, start, end, FALSE, TRUE),
       get_chart_data(operations_, AuctionList, start, end, FALSE, FALSE),
       get_chart_data(operations_, FixedRateList, start, end, FALSE, FALSE),
       get_chart_data(operations_, FixedRateList, start, end, TRUE, FALSE) >>

(***************************************************************************)
(* main (project.py 33-105) with its two readers, and what the Bank        *)
(* publishes: a worksheet for a month or none, pages for a day or none.    *)
(***************************************************************************)
DAYS == 1050

MaxRuns == 2        \* times the program is started

FirstToday == 40 * MonthLen + 14

FirstSheetMonth == MonthOf(FirstToday) - 3

\* The worksheet of month m: an auction table with rows of two days and a
\* fixed-rate table with rows of one day.
MonthSheet(m) ==
    LET d1 == Cell("number", ExcelEpoch + FirstOfMonth(m) + 9)
        d2 == Cell("number", ExcelEpoch + FirstOfMonth(m) + 19)
    IN  [ missing |-> FALSE, ncols |-> 13,
          rows |-> << TextRow,
                      AuctionRowOf(d1, 120, 100, 10, <<MoreThan("5"), UpTo("10")>>),
                      AuctionRowOf(d1, 60, 50, 20, <<MoreThan("5"), UpTo("10")>>),
                      AuctionRowOf(d2, 30, 20, 5, <<UpToOpen("1")>>),
                      TitleRow >>
                   \o Repeat(TextRow, 8)
                   \o << FixedRowOf(d2, 40, 10, 250), FixedRowOf(d2, 10, 2, 250), TextRow >> ]

\* A worksheet of twelve columns, neither of the two known layouts.
OddSheet(m) == [MonthSheet(m) EXCEPT !.ncols = 12]

SheetsOf(m) ==
    IF m < FirstSheetMonth THEN {NoSheet} ELSE {NoSheet, MonthSheet(m), OddSheet(m)}

\* The pages of a day with operations, and pages with a description that
\* get_short_name does not place.
GoodPage(d) ==
    [ missing |-> FALSE, tables |-> 2, offer |-> 3, date |-> d,
      data |-> << RawRow(<<Word("x"), Phrase(P_MaturityOf), MoreThan("5"), UpTo("10")>>,
                         Num(120), Num(100), Num(10)),
                  RawRow(<<Word("x"), Phrase(P_FixedRate), Word("x"), Phrase(P_MaturityOf),
                           MoreThan("5"), UpTo("10")>>, NaN, Num(40), NaN) >>,
      notes |-> <<TextNote, YieldNote(10, 250)>> ]

BadPage(d) ==
    [ missing |-> FALSE, tables |-> 2, offer |-> 3, date |-> d,
      data |-> <<RawRow(<<Word("x")>>, Num(1), Num(1), Num(1))>>, notes |-> <<>> ]

\* Pages whose annotation has no fixed-rate row to go with.
OrphanPage(d) ==
    [ missing |-> FALSE, tables |-> 2, offer |-> 3, date |-> d,
      data |-> << RawRow(<<Word("x"), Phrase(P_MaturityOf), MoreThan("5"), UpTo("10")>>,
                         Num(120), Num(100), Num(10)) >>,
      notes |-> <<YieldNote(10, 250)>> ]

\* Pages that are there but do not hold the expected tables: a results page
\* with one table, an offer page with none or with two.
OddPages(d) ==
    { [GoodPage(d) EXCEPT !.tables = 1],
      [GoodPage(d) EXCEPT !.offer = 0],
      [GoodPage(d) EXCEPT !.offer = 2] }

PagesOf(d) ==
    IF d % MonthLen = 9 /\ MonthOf(d) >= FirstSheetMonth
    THEN {NoPage, GoodPage(d), BadPage(d), OrphanPage(d)} \cup OddPages(d)
    ELSE {NoPage}

\* add_operations (317-334) as a whole.
add_operations(df) ==
    LET dates == UniqueDates(df)
    IN  [ i \in 1..Len(dates) |-> add_operation(dates[i], OneDay(df, dates[i]), <<>>).value ]

\* 520-533 for the pages of one day: df_list[1] of the results page, the
\* offer page read with only ImportError caught, df_list[2] of it.
OperationOfPage(pg, date) ==
    IF pg.tables < 2 THEN Raised("IndexError", "list index out of range", <<>>)
    ELSE LET data == clean_up_data(pg.data, date)
         IN  IF data.exc # "none" THEN data
             ELSE IF pg.offer = 0 THEN Raised("ValueError", "No tables found", <<>>)
             ELSE IF pg.offer < 3 THEN Raised("IndexError", "list index out of range", <<>>)
             ELSE add_operation(date, data.value, clean_up_notes(pg.notes, date))

\* relativedelta(months=-2) and date(y, m, 1) (80-81).
EndMonthExcel == MonthOf(today) - 2

ingestLocals == <<df_data, df_notes, new_op, cursor>>

\* 52-53 when there is no backup file (56).
StartWithoutBackup ==
    /\ pc = "start"
    /\ ~file.exists
    /\ operations' = <<>>
    /\ reply' = "Y"
    /\ pc' = "refresh"
    /\ UNCHANGED <<nameVars, queryVars, ingestLocals, source, worksheet, page, ops, raised,
                   today, file, start_date, end_date_web, month, curdate, run>>

\* 52-60: the backup file is loaded.
LoadBackup ==
    /\ pc = "start"
    /\ file.exists
    /\ reply' = "Y"
    /\ LET r == load_from_json(file)
       IN  IF r.exc # "none"
           THEN /\ pc' = "raised"
                /\ raised' = r
                /\ UNCHANGED <<operations, start_date, end_date_web>>
           ELSE /\ operations' = r.value
                /\ UNCHANGED raised
                /\ IF Len(r.value) > 0
                   THEN /\ start_date' = r.value[1].Date
                        /\ end_date_web' = r.value[Len(r.value)].Date
                        /\ pc' = "ask"
                   ELSE /\ pc' = "refresh"
                        /\ UNCHANGED <<start_date, end_date_web>>
    /\ UNCHANGED <<nameVars, queryVars, ingestLocals, source, worksheet, page, ops,
                   today, file, month, curdate, run>>

\* 61-70: the question is repeated until the answer is Y or N.
Ask ==
    /\ pc = "ask"
    /\ \E answer \in {"Y", "N"} :
          /\ reply' = answer
          /\ pc' = IF answer = "N" THEN "charts" ELSE "refresh"
    /\ UNCHANGED <<nameVars, queryVars, ingestLocals, source, worksheet, page, ops, raised,
                   today, file, operations, start_date, end_date_web, month, curdate, run>>

\* 73-87 and 476-477: the date ranges, and get_historical_excel_data begins.
Refresh ==
    /\ pc = "refresh"
    /\ start_date' = today - DAYS
    /\ end_date_web' = today
    /\ month' = MonthOf(today - DAYS)
    /\ ops' = <<>>
    /\ source' = "excel"
    /\ pc' = "excel"
    /\ UNCHANGED <<nameVars, queryVars, ingestLocals, worksheet, page, raised,
                   today, file, reply, operations, curdate, run>>

\* 478-484: one month of get_historical_excel_data.
ExcelMonth ==
    /\ pc = "excel"
    /\ month <= EndMonthExcel
    /\ \E sh \in SheetsOf(month) :
          /\ worksheet' = sh
          /\ IF sh.missing
             THEN UNCHANGED <<ops, pc, raised>>
             ELSE LET df_full == get_excel_data(sh)
                  IN  IF df_full.exc # "none"
                      THEN /\ pc' = "raised"
                           /\ raised' = df_full
                           /\ UNCHANGED ops
                      ELSE /\ ops' = ops \o add_operations(df_full.value)
                           /\ UNCHANGED <<pc, raised>>
    /\ month' = month + 1
    /\ UNCHANGED <<nameVars, queryVars, ingestLocals, source, page,
                   today, file, reply, operations, start_date, end_date_web, curdate, run>>

\* 485, 89-91 and 502-503: the worksheets' Operations are appended, and
\* get_web_data begins.
ExcelDone ==
    /\ pc = "excel"
    /\ month > EndMonthExcel
    /\ operations' = operations \o ops
    /\ ops' = <<>>
    /\ source' = "web"
    /\ curdate' = FirstOfMonth(EndMonthExcel + 1)
    /\ pc' = "web"
    /\ UNCHANGED <<nameVars, queryVars, ingestLocals, worksheet, page, raised,
                   today, file, reply, start_date, end_date_web, month, run>>

\* A loop body that skips the day on every error.
WebDayLenient ==
    /\ pc = "web"
    /\ curdate <= today
    /\ \E pg \in PagesOf(curdate) :
          /\ page' = pg
          /\ IF pg.missing \/ OperationOfPage(pg, curdate).exc # "none"
             THEN UNCHANGED ops
             ELSE ops' = Append(ops, OperationOfPage(pg, curdate).value)
    /\ curdate' = curdate + 1
    /\ UNCHANGED <<nameVars, queryVars, ingestLocals, source, worksheet, pc, raised,
                   today, file, reply, operations, start_date, end_date_web, month, run>>

\* 503-534: one day of get_web_data.
WebDay ==
    /\ pc = "web"
    /\ curdate <= today
    /\ \E pg \in PagesOf(curdate) :
          /\ page' = pg
          /\ IF pg.missing
             THEN UNCHANGED <<ops, pc, raised>>
             ELSE LET new_op_ == OperationOfPage(pg, curdate)
                  IN  IF new_op_.exc # "none"
                      THEN /\ pc' = "raised"
                           /\ raised' = new_op_
                           /\ UNCHANGED ops
                      ELSE /\ ops' = Append(ops, new_op_.value)
                           /\ UNCHANGED <<pc, raised>>
    /\ curdate' = curdate + 1
    /\ UNCHANGED <<nameVars, queryVars, ingestLocals, source, worksheet,
                   today, file, reply, operations, start_date, end_date_web, month, run>>

\* 535 and 96-98: the pages' Operations are appended.
WebDone ==
    /\ pc = "web"
    /\ curdate > today
    /\ operations' = operations \o ops
    /\ ops' = <<>>
    /\ pc' = "save"
    /\ UNCHANGED <<nameVars, queryVars, ingestLocals, source, worksheet, page, raised,
                   today, file, reply, start_date, end_date_web, month, curdate, run>>

\* 100-104: save_to_json; the file stays as it is when it cannot be opened.
Save ==
    /\ pc = "save"
    /\ \E written \in BOOLEAN :
          file' = IF written THEN save_to_json(operations) ELSE file
    /\ pc' = "charts"
    /\ UNCHANGED <<nameVars, queryVars, ingestLocals, source, worksheet, page, ops, raised,
                   today, reply, operations, start_date, end_date_web, month, curdate, run>>

\* 105: select_generate_charts(operations, start_date, end_date_web).
Charts ==
    /\ pc = "charts"
    /\ query' = [fn |-> "select_generate_charts"]
    /\ result' = Collect(select_generate_charts(operations, start_date, end_date_web))
    /\ pc' = "exit"
    /\ UNCHANGED <<nameVars, ingestLocals, source, worksheet, page, ops, raised,
                   today, file, reply, operations, start_date, end_date_web, month, curdate, run>>

\* The program is started again, the same day or a month later; only the
\* backup file is kept.
StartAgain ==
    /\ pc \in {"exit", "raised"}
    /\ run < MaxRuns
    /\ run' = run + 1
    /\ \E later \in {0, MonthLen} : today' = today + later
    /\ pc' = "start"
    /\ source' = "none"
    /\ worksheet' = NoSheet
    /\ page' = NoPage
    /\ ops' = <<>>
    /\ raised' = NoException
    /\ reply' = "Y"
    /\ operations' = <<>>
    /\ start_date' = 0
    /\ end_date_web' = 0
    /\ month' = 0
    /\ curdate' = 0
    /\ query' = NoQuery
    /\ result' = NoException
    /\ UNCHANGED <<nameVars, ingestLocals, file>>

InitMain ==
    /\ NameIdle
    /\ QueryIdle
    /\ source = "none"
    /\ worksheet = NoSheet
    /\ page = NoPage
    /\ df_data = <<>>
    /\ df_notes = <<>>
    /\ new_op = Operation(0)
    /\ ops = <<>>
    /\ cursor = [date |-> 1, row |-> 1, note |-> 1]
    /\ raised = NoException
    /\ pc = "start"
    /\ today = FirstToday
    /\ file = NoFile
    /\ reply = "Y"
    /\ operations = <<>>
    /\ start_date = 0
    /\ end_date_web = 0
    /\ month = 0
    /\ curdate = 0
    /\ run = 1

NextMain ==
    \/ StartWithoutBackup
    \/ LoadBackup
    \/ Ask
    \/ Refresh
    \/ ExcelMonth
    \/ ExcelDone
    \/ WebDay
    \/ WebDone
    \/ Save
    \/ Charts
    \/ StartAgain

SpecMain == InitMain /\ [][NextMain]_vars

(***************************************************************************)
(* The record and chart functions on their own: a collection of Operations *)
(* is chosen and one function is called on it.                             *)
(***************************************************************************)
MaxOps == 3         \* Operations of a collection

WithNumbers(trans, comp, succ, rate) ==
    [trans EXCEPT !.CompetitiveBids = comp, !.SuccessfulBids = succ, !.Rate = rate]

\* Operations of the last two days of a month and the first two of the next:
\* auction and fixed-rate purchases, a dollar operation, a floating-rate
\* purchase, and Transactions whose numbers were never set.
OperationKinds ==
    { [ Date |-> FirstOfMonth(1) - 2,
        Transactions |->
          << WithNumbers(Transaction("JGBs: 5-10y", "JPY", 100), Num(120), Num(200), Num(10)),
             WithNumbers(Transaction("JGBs: FR 5-10y", "JPY", 100), Num(0), Num(40), Num(250)) >> ],
      [ Date |-> FirstOfMonth(1) - 1,
        Transactions |->
          << WithNumbers(Transaction("JGBs: 5-10y", "JPY", 100), Num(60), Num(50), Num(20)) >> ],
      [ Date |-> FirstOfMonth(1) - 1,
        Transactions |->
          << WithNumbers(Transaction("JGBs: Floating Rate", "JPY", 100), Num(35), Num(30), Num(5)) >> ],
      [ Date |-> FirstOfMonth(1),
        Transactions |->
          << WithNumbers(Transaction("JGBs: FR 5-10y", "JPY", 100), Num(0), Num(30), Num(500)),
             WithNumbers(Transaction("USD: PC", "USD", 1), Num(7), Num(5), Num(30)) >> ],
      [ Date |-> FirstOfMonth(1) + 1,
        Transactions |-> << Transaction("CP", "JPY", 100) >> ],
      [ Date |-> FirstOfMonth(1) + 1,
        Transactions |->
          << WithNumbers(Transaction("JGBs: 5-10y", "JPY", 100), Num(60), NaN, NaN) >> ] }

Collections == SeqsUpTo(OperationKinds, MaxOps)

QueryNames == {"JGBs: 5-10y", "JGBs: FR 5-10y", "CP", "JGBs: 1-3y"}

\* save_to_json(operations, JSON_FILE) (800-834).
SaveToJson ==
    /\ pc = "query"
    /\ \E written \in BOOLEAN :
          /\ file' = IF written THEN save_to_json(operations) ELSE file
          /\ result' = Returned(written)
    /\ query' = [fn |-> "save_to_json"]
    /\ pc' = "saved"
    /\ UNCHANGED <<nameVars, ingestVars_, today, reply, operations, start_date,
                   end_date_web, month, curdate, run>>

\* load_from_json(JSON_FILE) (837-864) of the file just written.
LoadFromJson ==
    /\ pc = "saved"
    /\ query' = [fn |-> "load_from_json"]
    /\ result' = load_from_json(file)
    /\ pc' = "returned"
    /\ UNCHANGED <<nameVars, ingestVars_, mainVars_>>

\* op.TransactionValue(instrument) or op.TransactionValue().
CallTransactionValue ==
    /\ pc = "query"
    /\ \E i \in 1..Len(operations), instrument \in QueryNames \cup {None} :
          /\ query' = [fn |-> "TransactionValue", op |-> i, instrument |-> instrument]
          /\ result' = TransactionValue(operations[i], instrument)
    /\ pc' = "returned"
    /\ UNCHANGED <<nameVars, ingestVars_, mainVars_>>

\* The Transactions have the numbers add_operation gives them (289-291).
NumbersSet(operations_) ==
    \A i \in 1..Len(operations_) : \A j \in 1..Len(operations_[i].Transactions) :
        /\ ~operations_[i].Transactions[j].SuccessfulBids.nan
        /\ ~operations_[i].Transactions[j].Rate.nan

InstrumentLists ==
    { <<"All">>, <<"JGBs: 5-10y">>, <<"JGBs: FR 5-10y", "JGBs: 5-10y">>,
      <<"All", "JGBs: FR 5-10y">>, <<"USD: PC", "All">> }

\* The whole of the two months, and the second month alone.
Windows ==
    { [start |-> 0, end |-> FirstOfMonth(2) - 1],
      [start |-> FirstOfMonth(1), end |-> FirstOfMonth(2) - 1] }

\* get_chart_data(operations, instruments, start, end, rate, monthly) on a
\* collection built by add_operation.
CallGetChartData ==
    /\ pc = "query"
    /\ NumbersSet(operations)
    /\ \E instruments \in InstrumentLists, w \in Windows, rate \in BOOLEAN, monthly \in BOOLEAN :
          /\ query' = [fn |-> "get_chart_data", instruments |-> instruments,
                       start |-> w.start, end |-> w.end, rate |-> rate, monthly |-> monthly]
          /\ result' = get_chart_data(operations, instruments, w.start, w.end, rate, monthly)
    /\ pc' = "returned"
    /\ UNCHANGED <<nameVars, ingestVars_, mainVars_>>

InitQuery ==
    /\ NameIdle
    /\ source = "none"
    /\ worksheet = NoSheet
    /\ page = NoPage
    /\ df_data = <<>>
    /\ df_notes = <<>>
    /\ new_op = Operation(0)
    /\ ops = <<>>
    /\ cursor = [date |-> 1, row |-> 1, note |-> 1]
    /\ raised = NoException
    /\ pc = "query"
    /\ today = 0
    /\ file = NoFile
    /\ reply = "Y"
    /\ operations \in Collections
    /\ start_date = 0
    /\ end_date_web = 0
    /\ month = 0
    /\ curdate = 0
    /\ run = 0
    /\ QueryIdle

NextQuery ==
    \/ SaveToJson
    \/ LoadFromJson
    \/ CallTransactionValue
    \/ CallGetChartData

SpecQuery == InitQuery /\ [][NextQuery]_vars

(***************************************************************************)
(* The classifier on its own: a description is drawn and get_short_name is *)
(* applied to it.                                                          *)
(***************************************************************************)
MaxShort == 3
MaxPre == 3
MaxPost == 2

\* Tokens of the short descriptions.
Alphabet ==
    { Word("x"), Word("a/b"),
      Phrase(P_CP), Phrase("OUTRIGHT PURCHASES OF CP"),
      Phrase(P_USDPooled), Phrase(P_Pooled), Phrase(P_AllOffices), Phrase(P_Repo),
      Phrase(P_FixedRate), Phrase(P_MaturityOf),
      MoreThan("5"), UpTo("10"),
      Offered("morning"), Offered("evening") }

\* Descriptions with a maturity phrase: text, "maturity of", bounds.
MaturityDescriptions ==
    { pre \o <<Phrase(P_MaturityOf)>> \o post :
        pre \in SeqsUpTo({Word("x"), Phrase(P_FixedRate), Phrase(P_Inflation)}, MaxPre),
        post \in SeqsUpTo({Word("x"), MoreThan("1"), MoreThan("5"), UpTo("10"),
                           UpTo("25"), UpToOpen("3"), Phrase("MATURITY OF"),
                           Phrase("(FIXED-RATE METHOD)")}, MaxPost) }

\* Descriptions with a session phrase after the repurchase phrase.
SessionDescriptions ==
    { pre \o <<Phrase(P_Repo), Offered(s)>> \o post :
        pre \in SeqsUpTo({Word("x"), Phrase(P_USDPooled)}, 1),
        s \in {"morning", "afternoon", "Morning", "evening"},
        post \in SeqsUpTo({Word("x"), Word("a/b"), Phrase(P_Repo), Offered("afternoon")},
                          MaxPost) }

Descriptions ==
    SeqsUpTo(Alphabet, MaxShort) \cup MaturityDescriptions \cup SessionDescriptions

InitName ==
    /\ long_name \in Descriptions
    /\ short_name = NotCalled
    /\ IngestIdle
    /\ MainIdle
    /\ QueryIdle

\* One call of get_short_name.
Classify ==
    /\ short_name = NotCalled
    /\ short_name' = get_short_name(long_name)
    /\ UNCHANGED <<long_name, ingestVars, mainVars, queryVars>>

NextName == Classify

SpecName == InitName /\ [][NextName]_vars

(***************************************************************************)
(* Properties of get_short_name, checked under SpecName.                   *)
(***************************************************************************)
Called == short_name # NotCalled

NoLiteralRule(name) == \A r \in 1..Len(searches) : ~FindAll(searches[r].pat, name)

HasToken(name, kinds) == \E i \in 1..Len(name) : name[i].kind \in kinds

HasPhrase(name, p) == \E i \in 1..Len(name) : IsPhrase(name[i], p)

Digits == {"1", "3", "5", "10", "25"}

\* The band part of a maturity name, from the bounds present.
Band(lo, hi) ==
    IF lo # None /\ hi # None THEN lo \o "-" \o hi \o "y"
    ELSE IF lo # None THEN ">" \o lo \o "y"
    ELSE "<" \o hi \o "y"

Bands == { Band(lo, hi) : lo \in Digits \cup {None}, hi \in Digits } \cup
         { Band(lo, None) : lo \in Digits }

FixedRateNames == { "JGBs: FR " \o b : b \in Bands }

AuctionNames == { "JGBs: " \o b : b \in Bands }

LendingNames == {"Sec. lending: am", "Sec. lending: pm"}

\* C3: a description that matches no literal rule, carries no maturity year
\* bound and has no session phrase makes get_short_name fail with the
\* unrecognized-instrument error, and in no other way.
C3_UnrecognizedInstrument ==
    ( /\ Called
      /\ NoLiteralRule(long_name)
      /\ ~HasToken(long_name, {"more", "upto", "uptoopen"})
      /\ ~HasToken(long_name, {"offered"}) )
    => short_name = Raised("ValueError", "Imstrument not recognized: ", long_name)

\* C4: a description with a maturity phrase is given the fixed-rate marker
\* "FR" exactly when it contains "(fixed-rate method)", wherever that text
\* stands in the description.
C4_FixedRateMarker ==
    ( /\ Called
      /\ NoLiteralRule(long_name)
      /\ MaturityPlaces(long_name, "floating") # {}
      /\ short_name.exc = "none" )
    => ( short_name.value \in FixedRateNames <=> HasPhrase(long_name, P_FixedRate) )

\* The bounds of the maturity phrase of a description that has one: the
\* maturity phrase is the last "maturity of" with text on both sides, its lower
\* bound the "more than X years" that follows it directly, its upper bound the
\* last "up to Y years)" after that.
ClaimPhrase(name) ==
    Max({ j \in 2..(Len(name) - 1) : IsPhrase(name[j], P_MaturityOf) })

ClaimLower(name) ==
    LET t == name[ClaimPhrase(name) + 1]
    IN  IF t.kind = "more" THEN t.arg ELSE None

ClaimUpper(name) ==
    LET j == ClaimPhrase(name)
        from == IF ClaimLower(name) = None THEN j + 1 ELSE j + 2
        ups == { u \in from..Len(name) : name[u].kind = "upto" }
    IN  IF ups = {} THEN None ELSE name[Max(ups)].arg

C6_FirstMatchWins ==
    Called =>
      /\ \A r \in 1..Len(searches) :
            ( /\ FindAll(searches[r].pat, long_name)
              /\ \A q \in 1..(r - 1) : ~FindAll(searches[q].pat, long_name) )
            => short_name = Returned(searches[r].name)
      /\ ( /\ FindAll(<<P_USDPooled, P_Repo>>, long_name)
           /\ \A q \in 1..5 : ~FindAll(searches[q].pat, long_name) )
         => short_name = Returned("USD: JGS PC")
      /\ short_name.value \in FixedRateNames \cup AuctionNames \cup LendingNames
            => NoLiteralRule(long_name)
      /\ short_name.value \in LendingNames
            => MaturityPlaces(long_name, "floating") = {}

C6_Witness ==
    /\ Called
    /\ long_name = <<Phrase(P_USDPooled), Phrase(P_Repo), Offered("morning"), Word("x")>>
    /\ short_name = Returned("USD: JGS PC")

\* The session token of a description the session pattern matches: the text
\* between "/offered in the " and the last "/" that has text after it.
ClaimSession(name) ==
    Max({ k \in 3..(Len(name) - 1) :
            name[k].kind = "offered" /\ IsPhrase(name[k - 1], P_Repo) })

ClaimTokenIs(name, word) ==
    /\ name[ClaimSession(name)].arg = word
    /\ \A u \in (ClaimSession(name) + 1)..Len(name) : ~HasSlash(name[u])

C14_ErrorCarriesDescription ==
    (Called /\ short_name.exc = "ValueError") => short_name.arg = long_name

(***************************************************************************)
(* Properties of the ingestion of one worksheet or one day's pages,        *)
(* checked under SpecIngest.                                               *)
(***************************************************************************)
IsFixedRate(r) == r.Instrument \in FixedRateNames

\* The rows of the worksheet's auction table as the sheet shows them: the
\* first unbroken run of rows with an integer in the tested column.
SheetAuctionRows ==
    LET n == Len(worksheet.rows)
        isint(i) == Column4(worksheet, worksheet.rows[i]).t = "int"
        ints == { i \in 1..n : isint(i) }
        first == Min(ints)
        last == Max({ j \in first..n : \A i \in first..j : isint(i) })
    IN  IF ints = {} THEN <<>> ELSE SubSeq(worksheet.rows, first, last)

\* The raw rows of the table being normalized, each with its date, the
\* instrument it classifies to and its numbers (empty cells as 0).
RawRows ==
    IF source = "web"
    THEN [ i \in 1..Len(page.data) |->
             [ Date |-> page.date,
               Instrument |-> get_short_name(page.data[i].Instrument).value,
               CompetitiveBids |-> FillNa(page.data[i].Competitive),
               SuccessfulBids |-> FillNa(page.data[i].Successful),
               SuccessfulYield |-> FillNa(page.data[i].Yield) ] ]
    ELSE [ i \in 1..Len(SheetAuctionRows) |-> AuctionRow(SheetAuctionRows[i]).value ]

RawRowsOf(r) ==
    SelectSeq(RawRows, LAMBDA x : x.Date = r.Date /\ x.Instrument = r.Instrument)

\* The normalized rows of that table.
NormalizedRows ==
    IF source = "web" THEN df_data ELSE SelectSeq(df_data, LAMBDA r : ~IsFixedRate(r))

\* The normalized rows of the worksheet's fixed-rate table.
NormalizedFixedRows ==
    IF source = "web" THEN <<>> ELSE SelectSeq(df_data, IsFixedRate)

OncePerTable(rows) ==
    \A i, j \in 1..Len(rows) :
        (rows[i].Date = rows[j].Date /\ rows[i].Instrument = rows[j].Instrument) => i = j

\* C1: every Operation the builder produces or is filling, from a worksheet
\* or from a day's pages, holds at most one Transaction per instrument name.
C1_OneTransactionPerInstrument ==
    \A op \in Range(ops) \cup {new_op} :
        \A i, j \in 1..Len(op.Transactions) :
            op.Transactions[i].Instrument = op.Transactions[j].Instrument => i = j

\* C9: each normalizer puts a (date, instrument) pair at most once in a
\* table, and the competitive and successful bids of a normalized row are the
\* sums over all raw rows of that date that classify to that instrument.
C9_VolumesSummedOncePerPair ==
    /\ OncePerTable(NormalizedRows)
    /\ OncePerTable(NormalizedFixedRows)
    /\ \A i \in 1..Len(NormalizedRows) :
          LET r == NormalizedRows[i]
              g == RawRowsOf(r)
          IN  /\ r.CompetitiveBids = SeqSum([k \in 1..Len(g) |-> g[k].CompetitiveBids])
              /\ r.SuccessfulBids = SeqSum([k \in 1..Len(g) |-> g[k].SuccessfulBids])

\* C10: where a normalizer merges several raw rows that all carry a yield,
\* the yield of the merged row is not the sum of their yields.
C10_YieldsNotSummed ==
    \A i \in 1..Len(NormalizedRows) :
        LET r == NormalizedRows[i]
            g == RawRowsOf(r)
            yields == [k \in 1..Len(g) |-> g[k].SuccessfulYield]
        IN  (Len(yields) >= 2 /\ \A k \in 1..Len(yields) : yields[k] # 0)
                => r.SuccessfulYield # SeqSum(yields)

\* The bucket of a fixed-rate maturity as the claim lists it.
ClaimBucket(maturity) ==
    CASE maturity = 2 -> "JGBs: FR 1-3y"
      [] maturity = 5 -> "JGBs: FR 3-5y"
      [] maturity = 10 -> "JGBs: FR 5-10y"
      [] maturity = 20 -> "JGBs: FR 10-25y"
      [] OTHER -> None

\* The Operation of the day's rows, before any annotation.
OperationOfRows == AddRows(Operation(page.date), df_data)

\* An annotation that can be applied: its maturity is one of the four and the
\* day's rows hold a Transaction of its bucket.
Applicable(note) ==
    /\ ClaimBucket(note.Maturity) # None
    /\ ClaimBucket(note.Maturity) \in Range(Instruments(OperationOfRows))

\* The Operation of the day's rows after the first k annotations: the rate of
\* a Transaction is that of the last annotation of its bucket, every other
\* field and every other Transaction as the rows gave them.
OperationAfterNotes(k) ==
    [ OperationOfRows EXCEPT !.Transactions =
        [ i \in 1..Len(@) |->
            LET hits == { n \in 1..k : ClaimBucket(df_notes[n].Maturity) = @[i].Instrument }
            IN  IF hits = {} THEN @[i]
                ELSE [@[i] EXCEPT !.Rate = Num(df_notes[Max(hits)].Rate)] ] ]

RaisedByAnnotation ==
    /\ pc = "raised"
    /\ raised = Raised("ValueError", "Unrecognized fixed rate operation maturity", <<>>)

\* C8: add_operation applies each annotation of maturity 2, 5, 10 or 20 to the
\* day's Transaction of its bucket and changes nothing else; the first
\* annotation of another maturity, or whose bucket the day's rows lack, is an
\* error and no Operation is returned.
C8_AnnotationsSetRates ==
    source = "web" =>
        /\ (pc = "rows" /\ cursor.row > Len(df_data)) =>
              /\ \A n \in 1..(cursor.note - 1) : Applicable(df_notes[n])
              /\ new_op = OperationAfterNotes(cursor.note - 1)
        /\ RaisedByAnnotation =>
              /\ \A n \in 1..(cursor.note - 2) : Applicable(df_notes[n])
              /\ ~Applicable(df_notes[cursor.note - 1])
              /\ ops = <<>>
        /\ ops # <<>> =>
              /\ \A n \in 1..Len(df_notes) : Applicable(df_notes[n])
              /\ ops = <<OperationAfterNotes(Len(df_notes))>>

C8_Witness ==
    /\ source = "web"
    /\ pc = "done"
    /\ Len(df_notes) = 2
    /\ Len(ops) = 1
    /\ Len(ops[1].Transactions) = 2
    /\ \E i \in 1..2 :
          /\ ops[1].Transactions[i].Instrument = "JGBs: FR 5-10y"
          /\ ops[1].Transactions[i].Rate = Num(500)

(***************************************************************************)
(* Properties of main, checked under SpecMain.                             *)
(***************************************************************************)
\* C2: the list main hands to save_to_json and to select_generate_charts has
\* at most one Operation per date and is in ascending order of date, whether
\* there was no backup, a backup that is reused or a backup that is refreshed.
C2_UniqueSortedOperations ==
    pc \in {"save", "charts"} =>
        \A i \in 1..(Len(operations) - 1) : operations[i].Date < operations[i + 1].Date

(***************************************************************************)
(* The tables of a worksheet as the sheet shows them: the unbroken runs of *)
(* rows with an integer in the tested column, rows counted from 1.         *)
(***************************************************************************)
IsIntRow(i) == Column4(worksheet, worksheet.rows[i]).t = "int"

RunStarts ==
    { a \in 1..Len(worksheet.rows) : IsIntRow(a) /\ (a = 1 \/ ~IsIntRow(a - 1)) }

RunEnd(a) == Max({ j \in a..Len(worksheet.rows) : \A i \in a..j : IsIntRow(i) })

\* The rows of each run, the runs from the top of the sheet down.
IntegerRuns ==
    LET first == Ascending(RunStarts)
    IN  [ k \in 1..Len(first) |-> SubSeq(worksheet.rows, first[k], RunEnd(first[k])) ]

\* The rows that get_excel_data cuts out for each block its scan recorded.
ScannedRegions ==
    LET st == Scan(worksheet)
    IN  [ k \in 1..Len(st.starts) |-> ILoc(worksheet.rows, st.starts[k][1], st.starts[k][2]) ]

WorksheetRead == source = "excel" /\ ~worksheet.missing /\ pc # "read"

\* C20: the scan records every maximal run of integer rows as one block, and
\* the region cut out for a block is the rows of its run, the first and the
\* last included, also for a run that starts at the first row of the sheet
\* or ends at the last.
C20_BlocksAreTheIntegerRuns ==
    WorksheetRead => ScannedRegions = IntegerRuns

\* The rows whose first column holds "(fixed-rate method)".
TitleRows == { i \in 1..Len(worksheet.rows) : worksheet.rows[i].c0.t = "frm" }

\* A worksheet of a known shape with two tables and the title of the second.
TwoTables ==
    /\ WorksheetRead
    /\ worksheet.ncols \in {11, 13}
    /\ Len(IntegerRuns) = 2
    /\ Cardinality(TitleRows) = 1

\* Rows from the title down to the first row of the second table.
RowsBelowTitle == Ascending(RunStarts)[2] - Max(TitleRows)

\* C19: when the second table does not begin exactly nine rows below the
\* "(fixed-rate method)" title it is taken for absent: no error, and the
\* result holds rows of the auction table only.  When it begins exactly nine
\* rows below, each of its rows is in the result under its bucket.
C19_SecondTableByDistance ==
    TwoTables =>
        /\ pc # "raised"
        /\ RowsBelowTitle # 9 => \A i \in 1..Len(df_data) : ~IsFixedRate(df_data[i])
        /\ RowsBelowTitle = 9 =>
              \A k \in 1..Len(IntegerRuns[2]) :
                  \E i \in 1..Len(df_data) :
                      /\ IsFixedRate(df_data[i])
                      /\ df_data[i].Date = FixedRateRow(IntegerRuns[2][k]).value.Date
                      /\ df_data[i].Instrument = FixedRateRow(IntegerRuns[2][k]).value.Instrument

(***************************************************************************)
(* Properties of the refresh, checked under SpecMain.                      *)
(***************************************************************************)
\* The day's pages are missing, or there without the expected tables.
Unusable(pg) == pg.missing \/ pg.tables < 2 \/ pg.offer < 3

\* C12: in get_web_data a date whose results page or offer page is missing,
\* or holds no tables or too few tables, is skipped: nothing is appended, no
\* error is raised and the loop goes on with the next date.
C12_UnusablePagesSkipped ==
    [][ (pc = "web" /\ curdate <= today /\ Unusable(page'))
        => (pc' = "web" /\ curdate' = curdate + 1 /\ ops' = ops /\ raised' = raised) ]_vars

\* Pages and worksheets with the expected tables whose content is rejected.
FatalPage(pg, date) == ~Unusable(pg) /\ OperationOfPage(pg, date).exc = "ValueError"

FatalSheet(sh) == ~sh.missing /\ get_excel_data(sh).exc = "ValueError"

Stopped == pc = "raised" /\ raised.exc = "ValueError"

\* C13: a fatal error during a refresh (a description, maturity or table
\* shape that is not recognized, an annotation without its row) stops the
\* run: the month or date that raised it is the last one processed, and the
\* run goes on to no save and no charts, so the file keeps its content.
C13_FatalErrorStopsRun ==
    [][ /\ (pc = "web" /\ curdate <= today /\ FatalPage(page', curdate))
           => (Stopped' /\ operations' = operations /\ file' = file)
        /\ (pc = "excel" /\ month <= EndMonthExcel /\ FatalSheet(worksheet'))
           => (Stopped' /\ operations' = operations /\ file' = file)
        /\ pc = "raised"
           => (pc' = "start" /\ file' = file /\ result = NoException /\ result' = NoException) ]_vars

C13_Witness ==
    /\ Stopped
    /\ source = "web"
    /\ FatalPage(page, curdate - 1)
    /\ file.exists
    /\ file.entries # <<>>

\* C18: every frame that select_generate_charts gets from get_chart_data
\* for main's collection is strictly ascending by date (daily) or by month
\* start (monthly), so it has one row per date or month.
C18_ChartsAscending ==
    (pc = "exit" /\ query.fn = "select_generate_charts" /\ result.exc = "none")
    => \A k \in 1..Len(result.value) : \A i \in 1..(Len(result.value[k]) - 1) :
          result.value[k][i].Date < result.value[k][i + 1].Date

(***************************************************************************)
(* Properties of the record functions, checked under SpecQuery.            *)
(***************************************************************************)
DistinctDates(ops_) ==
    \A i, j \in 1..Len(ops_) : ops_[i].Date = ops_[j].Date => i = j

\* C11: loading the file that save_to_json wrote for a non-empty collection
\* (one Operation per date) returns the collection: same order, dates and
\* Transaction fields, also where a rate or a bid field was never set; the
\* load does not fail.
C11_LoadOfSaveIsIdentity ==
    ( /\ pc = "returned"
      /\ query.fn = "load_from_json"
      /\ file.exists
      /\ operations # <<>>
      /\ DistinctDates(operations) )
    => result = Returned(operations)

\* C15: TransactionValue(inst) is successful bids x units / 1000 of the
\* Transaction of inst, and 0.0 without failing when the Operation has no
\* such Transaction or its successful bids are unset.
C15_TransactionValueOrZero ==
    (query.fn = "TransactionValue" /\ query.instrument # None) =>
        LET op == operations[query.op]
            found == { i \in 1..Len(op.Transactions) :
                         op.Transactions[i].Instrument = query.instrument }
            trans == op.Transactions[Min(found)]
        IN  result = Returned(IF found = {} \/ trans.SuccessfulBids.nan THEN 0
                              ELSE trans.SuccessfulBids.v * trans.Units)

\* The daily frame of the call that `query` records.
DailyOfQuery ==
    get_chart_data(operations, query.instruments, query.start, query.end, query.rate, FALSE).value

MonthStart(d) == FirstOfMonth(MonthOf(d))

\* C16: with "All" among the instruments, get_chart_data called with
\* rate=True returns exactly what it returns with rate=False.
C16_AllIgnoresRate ==
    (query.fn = "get_chart_data" /\ "All" \in Range(query.instruments) /\ query.rate)
    => result = get_chart_data(operations, query.instruments, query.start, query.end,
                               FALSE, query.monthly)

C16_Witness ==
    /\ query.fn = "get_chart_data"
    /\ query.instruments = <<"All", "JGBs: FR 5-10y">>
    /\ query.rate
    /\ result.exc = "none"
    /\ Len(result.value) >= 2
    /\ \E i \in 1..Len(result.value) : result.value[i].values[2].v > 0
    /\ DistinctDates(operations)

\* C17: in volume mode the monthly frame has exactly one row for every month
\* that has a daily row and no other row, and each of its values is the sum
\* of the daily values of the dates of that month.
C17_MonthlyIsSumOfDaily ==
    ( /\ query.fn = "get_chart_data"
      /\ query.monthly
      /\ ~query.rate \/ "All" \in Range(query.instruments)
      /\ result.exc = "none" )
    => LET daily == DailyOfQuery
           rows == result.value
           DaysOf(m) == SelectSeq(daily, LAMBDA r : MonthStart(r.Date) = m)
       IN  /\ \A i \in 1..Len(daily) :
                Cardinality({ j \in 1..Len(rows) : rows[j].Date = MonthStart(daily[i].Date) }) = 1
           /\ \A j \in 1..Len(rows) :
                /\ DaysOf(rows[j].Date) # <<>>
                /\ \A k \in 1..Len(query.instruments) :
                      /\ ~rows[j].values[k].nan
                      /\ rows[j].values[k].n = 1
                      /\ rows[j].values[k].v =
                           SeqSum([i \in 1..Len(DaysOf(rows[j].Date)) |->
                                     DaysOf(rows[j].Date)[i].values[k].v])

C17_Witness ==
    /\ query.fn = "get_chart_data"
    /\ query.monthly
    /\ ~query.rate
    /\ result.exc = "none"
    /\ Len(result.value) = 2
    /\ Len(DailyOfQuery) = 3
    /\ \E j \in 1..2 : result.value[j].values[1].v > 0
    /\ DistinctDates(operations)

\* The Transactions of the JGB family of an Operation, and their volume.
JGBTransactions(op) ==
    SelectSeq(op.Transactions, LAMBDA trans : First3(trans.Instrument) = "JGB")

JGBVolume(op) ==
    SeqSum([i \in 1..Len(JGBTransactions(op)) |->
              JGBTransactions(op)[i].SuccessfulBids.v * JGBTransactions(op)[i].Units])

\* C21: in a daily get_chart_data query for ["All"], every Operation of the
\* window that holds a Transaction of the JGB family, whichever category it
\* is, has a row, and the row's value is successful bids x units / 1000
\* summed over the Operation's JGB Transactions.
C21_AllHasEveryJGBOperation ==
    ( /\ query.fn = "get_chart_data"
      /\ query.instruments = <<"All">>
      /\ ~query.monthly
      /\ result.exc = "none" )
    => \A i \in 1..Len(operations) :
          ( /\ operations[i].Date >= query.start
            /\ operations[i].Date <= query.end
            /\ JGBTransactions(operations[i]) # <<>> )
          => \E j \in 1..Len(result.value) :
                /\ result.value[j].Date = operations[i].Date
                /\ result.value[j].values[1] = ChartCell(Num(JGBVolume(operations[i])))

====
